---------------------------- MODULE Spec2Model ----------------------------
(***************************************************************************)
(* SearchBox (src/app.py): a BM25 index over the text files of one folder, *)
(* guarded by one non-reentrant threading.Lock (line 52), queried and      *)
(* rebuilt by concurrent callers while the files change underneath.        *)
(*                                                                         *)
(* Texts and queries are sequences of one-character strings.  Real numbers *)
(* are fixed point: idf and scores are held in millionths (math.log is a   *)
(* table of ln in millionths), avgdl is the exact fraction sum/N.          *)
(***************************************************************************)
EXTENDS Integers, Sequences, FiniteSets, TLC

(***************************************************************************)
(* Bounds of the model.                                                    *)
(***************************************************************************)
MaxClock == 1      \* file-system changes the environment makes
MaxSnippetText == 3   \* characters of a text handed to make_snippet on its own

\* The request threads: each serves one request.
Threads == {1, 2}
Root == "root"
FileNames == {"a.txt", "b.md"}

\* The characters texts and queries are made of.
TokenChars == {"a", "b", "A", "B"}
Texts == { <<"b", "-", "a", " ", "a">> }
Queries == { <<" ">>, <<"B", " ", "z">> }
Limits == {-1, 1}

(***************************************************************************)
(* Pure helpers.                                                           *)
(***************************************************************************)
Range(s) == {s[i] : i \in DOMAIN s}

RECURSIVE SeqSum(_)
SeqSum(s) == IF s = <<>> THEN 0 ELSE Head(s) + SeqSum(Tail(s))

\* The orders in which os.walk may list a set of names.
Orderings(S) ==
    {s \in [1..Cardinality(S) -> S] : \A i, j \in 1..Cardinality(S) : i # j => s[i] # s[j]}

\* TOKEN_RE = [A-Za-z0-9]+ over the model's characters ("z" stands for a
\* letter no file contains).
IsTokenChar(c) == c \in TokenChars \cup {"z"}

lower(c) == CASE c = "A" -> "a" [] c = "B" -> "b" [] OTHER -> c

RECURSIVE tokenizeFrom(_, _, _)
tokenizeFrom(text, i, cur) ==
    IF i > Len(text)
    THEN (IF cur = <<>> THEN <<>> ELSE <<cur>>)
    ELSE IF IsTokenChar(text[i])
         THEN tokenizeFrom(text, i + 1, Append(cur, lower(text[i])))
         ELSE (IF cur = <<>> THEN <<>> ELSE <<cur>>) \o tokenizeFrom(text, i + 1, <<>>)

\* tokenize(text): the maximal runs of token characters, lowercased, in order.
tokenize(text) == tokenizeFrom(text, 1, <<>>)

\* freq of reindex: term -> number of occurrences in toks.
TermFreq(toks) ==
    [t \in Range(toks) |-> Cardinality({i \in DOMAIN toks : toks[i] = t})]

\* self.df[term] = self.df.get(term, 0) + 1 for every term of freq.
BumpDf(d, freq) ==
    [t \in DOMAIN d \cup DOMAIN freq |->
        (IF t \in DOMAIN d THEN d[t] ELSE 0) + (IF t \in DOMAIN freq THEN 1 ELSE 0)]

\* ln(n) in millionths, for the arguments the index sizes of the model reach.
LnMicro(n) ==
    CASE n = 1 -> 0       [] n = 2 -> 693147  [] n = 3 -> 1098612
      [] n = 4 -> 1386294 [] n = 5 -> 1609438 [] n = 6 -> 1791759
      [] n = 7 -> 1945910 [] n = 8 -> 2079442 [] n = 9 -> 2197225
      [] n = 10 -> 2302585

\* math.log((N - df + 0.5) / (df + 0.5) + 1.0) = ln((2N + 2) / (2df + 1)).
IdfOf(N, dfv) == LnMicro(2 * N + 2) - LnMicro(2 * dfv + 1)

\* k1 = 1.5 and b = 0.75, as fractions.
K1Num == 3
K1Den == 2
BNum == 3
BDen == 4

\* File paths: os.path.join(base, fn), os.path.basename, os.path.relpath.
JoinPath(base, fn) == <<base, fn>>
Basename(path) == path[2]
Relpath(path, root) == IF path[1] = root THEN path[2] ELSE "../"


\* walk_docs keeps the files whose extension is .md, .txt, .html or .htm.
Ext(fn) == CASE fn = "a.txt" -> ".txt" [] fn = "b.md" -> ".md" [] OTHER -> ""
Eligible(fn) == Ext(fn) \in {".md", ".txt", ".html", ".htm"}

(***************************************************************************)
(* State.                                                                  *)
(***************************************************************************)
VARIABLES
    fs,          \* the folder: file name -> [exists, mtime, text, readable]
    clock,       \* file-system time; a change stamps the file with it
    docs,        \* self.docs
    df,          \* self.df
    tf,          \* self.tf
    avgdl,       \* self.avgdl, the fraction num/den
    idf,         \* self.idf
    last_build,  \* self.last_build: the stamp of the build pass that began last
    lock,        \* self.lock: 0 when free, else the thread that acquired it
    th,          \* per worker thread: its position and its local variables
    requests     \* history: invocations of reindex made so far

vars == <<fs, clock, docs, df, tf, avgdl, idf, last_build, lock, th, requests>>
index == <<docs, df, tf, avgdl, idf, last_build>>

Absent == [exists |-> FALSE, mtime |-> 0, text |-> <<>>, readable |-> TRUE]
NoResult == [kind |-> "none", items |-> <<>>, value |-> 0]

\* A thread whose request has not arrived yet.
Idle ==
    [pc |-> "idle", op |-> "none", query |-> <<>>, limit |-> 0, q_terms |-> <<>>,
     doc_idx |-> 0, caller |-> "none", walk |-> <<>>, i |-> 0, snapshot |-> {},
     failed |-> FALSE, text |-> <<>>, len |-> 0, freq |-> <<>>, scores |-> <<>>,
     result |-> NoResult,
     \* history, read by the properties only
     stale |-> FALSE, seen_build |-> 0, arrived |-> FALSE, passes |-> 0,
     scored_on |-> 0, ranked_on |-> 0, ranked |-> <<>>,
     began |-> 0, read_ok |-> FALSE, log |-> <<>>]

\* The files a scan of the root lists now, and their (path, mtime) pairs.
Live == {fn \in FileNames : fs[fn].exists /\ Eligible(fn)}
LivePairs == {<<JoinPath(Root, fn), fs[fn].mtime>> : fn \in Live}

\* have of maybe_reindex.
Have == {<<docs[k].path, docs[k].mtime>> : k \in DOMAIN docs}

\* The threads inside the build section of reindex (lines 57-87).
InBuild == {t \in Threads : th[t].pc \in {"reindex_read", "reindex_stat"}}

(***************************************************************************)
(* Loader.                                                                 *)
(***************************************************************************)
\* open(path) of line 18 succeeds: the file is there and may be read.
CanRead(f, fn) == f[fn].exists /\ f[fn].readable

\* read_text: the content, or "" when every open fails (missing, unreadable).
read_text(f, fn) == IF CanRead(f, fn) THEN f[fn].text ELSE <<>>

\* strip_html: the model's characters hold no "<" and no "&", so no tag and
\* no entity is there to remove.
strip_html(text) == text

file_to_text(f, fn) ==
    LET raw == read_text(f, fn)
    IN  IF Ext(fn) = ".html" \/ Ext(fn) = ".htm" THEN strip_html(raw) ELSE raw

\* Lines 66-73 for one file: the text, its length in tokens and its table.
LoadFile(f, fn) ==
    LET text == file_to_text(f, fn)
        toks == tokenize(text)
    IN  [text |-> text, len |-> Len(toks), freq |-> TermFreq(toks)]

\* Lines 74-77: the document appended for the file at enumerate index i.
MakeDoc(i, fn, text, mtime, len) ==
    [id |-> i, path |-> JoinPath(Root, fn), title |-> Basename(JoinPath(Root, fn)),
     text |-> text, mtime |-> mtime, len |-> len]

\* Lines 82-83: N and avgdl.
DocCount(ds) == IF Len(ds) = 0 THEN 1 ELSE Len(ds)

\* An average that takes the length of the document listed first for the
\* length of every document.
AvgDlOfFirst(ds) ==
    [num |-> IF ds = <<>> THEN 0 ELSE ds[1].len * Len(ds), den |-> DocCount(ds)]

AvgDl(ds) == [num |-> SeqSum([k \in DOMAIN ds |-> ds[k].len]), den |-> DocCount(ds)]

\* Lines 85-87: the idf table.
IdfTable(ds, d) == [term \in DOMAIN d |-> IdfOf(DocCount(ds), d[term])]

\* One whole build pass over an unchanging folder f, listed in `order`
\* (the pass the constructor runs, line 53).
RECURSIVE BuildFrom(_, _, _, _)
BuildFrom(f, order, i, acc) ==
    IF i > Len(order) THEN acc
    ELSE LET fn == order[i]
             ld == LoadFile(f, fn)
             d1 == BumpDf(acc.df, ld.freq)
         IN  IF f[fn].exists
             THEN BuildFrom(f, order, i + 1,
                     [docs |-> Append(acc.docs, MakeDoc(i - 1, fn, ld.text, f[fn].mtime, ld.len)),
                      df |-> d1, tf |-> Append(acc.tf, ld.freq)])
             ELSE BuildFrom(f, order, i + 1, [acc EXCEPT !.df = d1])

\* The folders the program may be started on.
File(text) == [exists |-> TRUE, mtime |-> 0, text |-> text, readable |-> TRUE]
InitialFolders ==
    { [fn \in FileNames |-> Absent],
      [fn \in FileNames |-> IF fn = "a.txt" THEN File(<<"a">>) ELSE Absent],
      [fn \in FileNames |-> IF fn = "a.txt" THEN File(<<"a">>) ELSE File(<<"a", " ", "B">>)] }

Init ==
    /\ fs \in InitialFolders
    /\ clock = 0
    /\ \E order \in Orderings({fn \in FileNames : fs[fn].exists /\ Eligible(fn)}) :
          LET b == BuildFrom(fs, order, 1, [docs |-> <<>>, df |-> <<>>, tf |-> <<>>])
          IN  /\ docs = b.docs
              /\ df = b.df
              /\ tf = b.tf
              /\ avgdl = AvgDl(b.docs)
              /\ idf = IdfTable(b.docs, b.df)
    /\ last_build = 1
    /\ lock = 0
    /\ th = [t \in Threads |-> Idle]
    /\ requests = 0

(***************************************************************************)
(* The environment: files are written, removed and made unreadable while   *)
(* the program runs.                                                       *)
(***************************************************************************)
WriteFile(fn, text) ==
    /\ clock < MaxClock
    /\ ~(fs[fn].exists /\ fs[fn].text = text)
    /\ clock' = clock + 1
    /\ fs' = [fs EXCEPT ![fn] = [exists |-> TRUE, mtime |-> clock + 1, text |-> text,
                                 readable |-> TRUE]]
    /\ UNCHANGED <<index, lock, th, requests>>

RemoveFile(fn) ==
    /\ clock < MaxClock
    /\ fs[fn].exists
    /\ clock' = clock + 1
    /\ fs' = [fs EXCEPT ![fn] = Absent]
    /\ UNCHANGED <<index, lock, th, requests>>

\* chmod: the content and the modification time stay.
ProtectFile(fn) ==
    /\ clock < MaxClock
    /\ fs[fn].exists /\ fs[fn].readable
    /\ clock' = clock + 1
    /\ fs' = [fs EXCEPT ![fn].readable = FALSE]
    /\ UNCHANGED <<index, lock, th, requests>>

(***************************************************************************)
(* Scorer (lines 101-114), evaluated on the index as it is now.            *)
(***************************************************************************)
\* idf * (tf * (k1 + 1)) / (tf + k1 * (1 - b + b * dl / avgdl)) in millionths,
\* with avgdl = num/den, as one quotient of integers.
TermScore(idfv, tfv, dl, avg) ==
    (idfv * tfv * (K1Num + K1Den) * BDen * avg.num)
        \div (tfv * K1Den * BDen * avg.num
                + K1Num * ((BDen - BNum) * avg.num + BNum * dl * avg.den))

\* The terms of q_terms, in order, that the loop does not skip.
Hits(q_terms, freq) == SelectSeq(q_terms, LAMBDA t : t \in DOMAIN freq)

\* A scorer that looks the query terms up in the idf table of the whole
\* corpus and takes a term the document lacks as occurring once.
scoreCorpusTerms(q_terms, doc_idx) ==
    IF doc_idx >= Len(docs) \/ doc_idx >= Len(tf)
    THEN [kind |-> "IndexError", items |-> <<>>, value |-> 0]
    ELSE LET d == docs[doc_idx + 1]
             freq == tf[doc_idx + 1]
             hits == Hits(q_terms, idf)
             dl == IF d.len = 0 THEN 1 ELSE d.len
         IN  IF hits # <<>> /\ avgdl.num = 0
             THEN [kind |-> "ZeroDivisionError", items |-> <<>>, value |-> 0]
             ELSE [kind |-> "score", items |-> <<>>,
                   value |-> SeqSum([j \in DOMAIN hits |->
                                TermScore(idf[hits[j]],
                                          IF hits[j] \in DOMAIN freq THEN freq[hits[j]] ELSE 1,
                                          dl, avgdl)])]

\* A scorer without the skip of lines 107-108: a term the document lacks
\* goes through the formula with tf = 0.
scoreEveryTerm(q_terms, doc_idx) ==
    IF doc_idx >= Len(docs) \/ doc_idx >= Len(tf)
    THEN [kind |-> "IndexError", items |-> <<>>, value |-> 0]
    ELSE LET d == docs[doc_idx + 1]
             freq == tf[doc_idx + 1]
             dl == IF d.len = 0 THEN 1 ELSE d.len
         IN  IF q_terms # <<>> /\ avgdl.num = 0
             THEN [kind |-> "ZeroDivisionError", items |-> <<>>, value |-> 0]
             ELSE [kind |-> "score", items |-> <<>>,
                   value |-> SeqSum([j \in DOMAIN q_terms |->
                                TermScore(IF q_terms[j] \in DOMAIN idf
                                          THEN idf[q_terms[j]] ELSE 0,
                                          IF q_terms[j] \in DOMAIN freq
                                          THEN freq[q_terms[j]] ELSE 0,
                                          dl, avgdl)])]

score(q_terms, doc_idx) ==
    IF doc_idx >= Len(docs) \/ doc_idx >= Len(tf)
    THEN [kind |-> "IndexError", items |-> <<>>, value |-> 0]
    ELSE LET d == docs[doc_idx + 1]
             freq == tf[doc_idx + 1]
             hits == Hits(q_terms, freq)
             dl == IF d.len = 0 THEN 1 ELSE d.len
         IN  IF hits # <<>> /\ avgdl.num = 0
             THEN [kind |-> "ZeroDivisionError", items |-> <<>>, value |-> 0]
             ELSE [kind |-> "score", items |-> <<>>,
                   value |-> SeqSum([j \in DOMAIN hits |->
                                TermScore(IF hits[j] \in DOMAIN idf THEN idf[hits[j]] ELSE 0,
                                          freq[hits[j]], dl, avgdl)])]

(***************************************************************************)
(* Snippet Extractor (lines 145-167).  A snippet is a sequence of          *)
(* characters; a marker or an entity is spelled out character by character.*)
(***************************************************************************)
SnippetWidth == 240

SetMin(S) == CHOOSE x \in S : \A y \in S : x <= y

RECURSIVE Flatten(_)
Flatten(ss) == IF ss = <<>> THEN <<>> ELSE Head(ss) \o Flatten(Tail(ss))

\* str.find: the offset, from 0, of the first occurrence of t in low; -1 if none.
Find(low, t) ==
    LET occ == {q \in 0..(Len(low) - Len(t)) : SubSeq(low, q + 1, q + Len(t)) = t}
    IN  IF occ = {} THEN -1 ELSE SetMin(occ)

first_hit_span(text, terms) ==
    LET low == [j \in DOMAIN text |-> lower(text[j])]
        positions == {Find(low, terms[j]) : j \in DOMAIN terms} \ {-1}
    IN  IF positions = {} THEN 0 ELSE SetMin(positions)

\* html.escape, one character.
EscapeChar(c) ==
    CASE c = "&" -> <<"&", "a", "m", "p", ";">>
      [] c = "<" -> <<"&", "l", "t", ";">>
      [] c = ">" -> <<"&", "g", "t", ";">>
      [] c = "\"" -> <<"&", "q", "u", "o", "t", ";">>
      [] c = "'" -> <<"&", "#", "x", "2", "7", ";">>
      [] OTHER -> <<c>>

\* \w of the regular expression, over the characters a snippet can hold.
IsWordChar(c) == c \notin {" ", "-", "&", "<", ">", "\"", "'", "#", ";", "/", "..."}

\* (?i)\b(t)\b matches esc at offset q (from 0).
MatchesAt(esc, q, t) ==
    /\ q + Len(t) <= Len(esc)
    /\ [j \in 1..Len(t) |-> lower(esc[q + j])] = t
    /\ (q = 0 \/ ~IsWordChar(esc[q]))
    /\ (q + Len(t) = Len(esc) \/ ~IsWordChar(esc[q + Len(t) + 1]))

\* re.sub: every match of t, left to right, is wrapped in <mark>...</mark>.
RECURSIVE MarkFrom(_, _, _)
MarkFrom(esc, q, t) ==
    IF q >= Len(esc) THEN <<>>
    ELSE IF MatchesAt(esc, q, t)
         THEN <<"<", "m", "a", "r", "k", ">">> \o SubSeq(esc, q + 1, q + Len(t))
                 \o <<"<", "/", "m", "a", "r", "k", ">">> \o MarkFrom(esc, q + Len(t), t)
         ELSE <<esc[q + 1]>> \o MarkFrom(esc, q + 1, t)

\* sorted(set(terms), key=len, reverse=True), applied one term after another.
RECURSIVE MarkAll(_, _)
MarkAll(esc, ts) ==
    IF ts = {} THEN esc
    ELSE LET t == CHOOSE x \in ts : \A y \in ts : Len(x) >= Len(y)
         IN  MarkAll(MarkFrom(esc, 0, t), ts \ {t})

make_snippet(text, terms, width) ==
    LET pos == first_hit_span(text, terms)
        start == IF pos - width \div 4 > 0 THEN pos - width \div 4 ELSE 0
        end == IF start + width < Len(text) THEN start + width ELSE Len(text)
        chunk == SubSeq(text, start + 1, end)
        esc == Flatten([j \in DOMAIN chunk |-> EscapeChar(chunk[j])])
        prefix == IF start > 0 THEN <<"...">> ELSE <<>>
        suffix == IF end < Len(text) THEN <<"...">> ELSE <<>>
    IN  prefix \o MarkAll(esc, Range(terms)) \o suffix

(***************************************************************************)
(* Ranker (lines 127-139).                                                 *)
(***************************************************************************)
\* list.sort(reverse=True, key=score) is stable: an entry goes behind every
\* entry whose score is at least its own.
RECURSIVE InsertDesc(_, _)
InsertDesc(sorted, e) ==
    IF sorted = <<>> THEN <<e>>
    ELSE IF Head(sorted)[1] >= e[1]
         THEN <<Head(sorted)>> \o InsertDesc(Tail(sorted), e)
         ELSE <<e>> \o sorted

RECURSIVE SortDesc(_)
SortDesc(s) ==
    IF s = <<>> THEN <<>> ELSE InsertDesc(SortDesc(SubSeq(s, 1, Len(s) - 1)), s[Len(s)])

\* scores[:limit], a Python slice: a negative limit counts from the end.
SliceTo(s, lim) ==
    LET n == Len(s)
        k == IF lim >= 0 THEN (IF lim < n THEN lim ELSE n)
                         ELSE (IF n + lim > 0 THEN n + lim ELSE 0)
    IN  SubSeq(s, 1, k)

\* round(float(s), 4), in ten-thousandths.
Round4(micro) == (micro + 50) \div 100

\* The result records of the kept entries, read from self.docs as it is now.
Results(kept, q_terms) ==
    IF \E j \in DOMAIN kept : kept[j][2] >= Len(docs)
    THEN [kind |-> "IndexError", items |-> <<>>, value |-> 0]
    ELSE [kind |-> "results", value |-> 0,
          items |-> [j \in DOMAIN kept |->
              LET d == docs[kept[j][2] + 1]
              IN  [title |-> d.title, path |-> Relpath(d.path, Root),
                   score |-> Round4(kept[j][1]),
                   snippet |-> make_snippet(d.text, q_terms, SnippetWidth),
                   mtime |-> d.mtime]]]

(***************************************************************************)
(* The lock, and line 98.                                                  *)
(***************************************************************************)
\* A lock that lets every caller in.
CanAcquireAlways(t) == TRUE

\* threading.Lock.acquire: blocks until the lock is free, whoever holds it.
CanAcquire(t) == lock = 0

\* A comparison of the paths alone, blind to modification times.
IsStalePathsOnly(now, have) == {p[1] : p \in now} # {p[1] : p \in have}

\* A check that finds the index stale whatever the two sets are.
IsStaleAlways(now, have) == TRUE

\* now != have
IsStale(now, have) == now # have

(***************************************************************************)
(* Requests of the HTTP front end (do_GET, lines 285-299) and direct uses  *)
(* of score.                                                               *)
(***************************************************************************)
CallSearch(t) ==
    /\ th[t].pc = "idle"
    /\ \E q \in Queries, l \in Limits :
          th' = [th EXCEPT ![t] = [Idle EXCEPT !.pc = "maybe_lock", !.op = "search",
                                                !.query = q, !.limit = l]]
    /\ UNCHANGED <<fs, clock, index, lock, requests>>

CallReindex(t) ==
    /\ th[t].pc = "idle"
    /\ th' = [th EXCEPT ![t] = [Idle EXCEPT !.pc = "reindex_lock", !.op = "reindex",
                                            !.caller = "api",
                                            !.arrived = (InBuild \ {t} # {})]]
    /\ requests' = requests + 1
    /\ UNCHANGED <<fs, clock, index, lock>>

\* score called on its own, with the terms of a query that has some (as
\* line 119 sees to in search) and a document position.
CallScore(t) ==
    /\ th[t].pc = "idle"
    /\ \E q \in Queries, k \in 0..(Cardinality(FileNames) - 1) :
          /\ tokenize(q) # <<>>
          /\ th' = [th EXCEPT ![t] = [Idle EXCEPT !.pc = "score_lock", !.op = "score",
                                                !.caller = "api", !.query = q,
                                                !.q_terms = tokenize(q), !.doc_idx = k]]
    /\ UNCHANGED <<fs, clock, index, lock, requests>>

(***************************************************************************)
(* maybe_reindex (lines 89-99).                                            *)
(***************************************************************************)
\* Line 91 and the listing of the root by os.walk.
MaybeAcquire(t) ==
    /\ th[t].pc = "maybe_lock"
    /\ CanAcquire(t)
    /\ lock' = t
    /\ \E order \in Orderings(Live) :
          th' = [th EXCEPT ![t].pc = "maybe_stat", ![t].walk = order, ![t].i = 1,
                           ![t].snapshot = {}, ![t].failed = FALSE,
                           ![t].stale = (LivePairs # Have),
                           ![t].seen_build = last_build]
    /\ UNCHANGED <<fs, clock, index, requests>>

\* Line 93, one file: os.path.getmtime raises for a file that is gone, and
\* the except clause then leaves snapshot = [].
MaybeStat(t) ==
    /\ th[t].pc = "maybe_stat"
    /\ ~th[t].failed
    /\ th[t].i <= Len(th[t].walk)
    /\ LET fn == th[t].walk[th[t].i]
       IN  IF fs[fn].exists
           THEN th' = [th EXCEPT ![t].i = @ + 1,
                          ![t].snapshot = @ \cup {<<JoinPath(Root, fn), fs[fn].mtime>>}]
           ELSE th' = [th EXCEPT ![t].failed = TRUE, ![t].snapshot = {}]
    /\ UNCHANGED <<fs, clock, index, lock, requests>>

\* Lines 96-99: have and now, the release, and the call of reindex.
MaybeCompare(t) ==
    /\ th[t].pc = "maybe_stat"
    /\ th[t].failed \/ th[t].i > Len(th[t].walk)
    /\ lock' = 0
    /\ IF IsStale(th[t].snapshot, Have)
       THEN /\ th' = [th EXCEPT ![t].pc = "reindex_lock", ![t].caller = "search",
                               ![t].walk = <<>>, ![t].i = 0, ![t].snapshot = {},
                               ![t].failed = FALSE,
                               ![t].arrived = (InBuild \ {t} # {})]
            /\ requests' = requests + 1
       ELSE /\ th' = [th EXCEPT ![t].pc = "search_tokenize",
                               ![t].walk = <<>>, ![t].i = 0, ![t].snapshot = {},
                               ![t].failed = FALSE]
            /\ UNCHANGED requests
    /\ UNCHANGED <<fs, clock, index>>

(***************************************************************************)
(* reindex (lines 55-87).                                                  *)
(***************************************************************************)
\* A reindex that, having been asked while a build was running, takes that
\* build's result for its own and returns without a pass.
ReindexAcquireCoalesced(t) ==
    /\ th[t].pc = "reindex_lock"
    /\ CanAcquire(t)
    /\ IF th[t].arrived
       THEN /\ th' = [th EXCEPT ![t].pc = IF th[t].caller = "search"
                                          THEN "search_tokenize" ELSE "reindex_respond"]
            /\ UNCHANGED <<index, lock>>
       ELSE /\ lock' = t
            /\ docs' = <<>>
            /\ df' = <<>>
            /\ tf' = <<>>
            /\ avgdl' = [num |-> 0, den |-> 1]
            /\ idf' = <<>>
            /\ last_build' = last_build + 1
            /\ \E order \in Orderings(Live) :
                  th' = [th EXCEPT ![t].pc = "reindex_read", ![t].walk = order,
                                   ![t].i = 1, ![t].passes = @ + 1,
                                   ![t].began = clock, ![t].log = <<>>]
    /\ UNCHANGED <<fs, clock, requests>>

\* Lines 56-64: the lock, the reset, the stamp, and the listing of the root.
ReindexAcquire(t) ==
    /\ th[t].pc = "reindex_lock"
    /\ CanAcquire(t)
    /\ lock' = t
    /\ docs' = <<>>
    /\ df' = <<>>
    /\ tf' = <<>>
    /\ avgdl' = [num |-> 0, den |-> 1]
    /\ idf' = <<>>
    /\ last_build' = last_build + 1
    /\ \E order \in Orderings(Live) :
          th' = [th EXCEPT ![t].pc = "reindex_read", ![t].walk = order, ![t].i = 1,
                           ![t].passes = @ + 1, ![t].began = clock, ![t].log = <<>>]
    /\ UNCHANGED <<fs, clock, requests>>

\* Lines 66-73 for the file at hand: read, tokenize, count, and bump df.
ReindexRead(t) ==
    /\ th[t].pc = "reindex_read"
    /\ th[t].i <= Len(th[t].walk)
    /\ LET ld == LoadFile(fs, th[t].walk[th[t].i])
       IN  /\ df' = BumpDf(df, ld.freq)
           /\ th' = [th EXCEPT ![t].pc = "reindex_stat", ![t].text = ld.text,
                               ![t].len = ld.len, ![t].freq = ld.freq,
                               ![t].read_ok = CanRead(fs, th[t].walk[th[t].i])]
    /\ UNCHANGED <<fs, clock, docs, tf, avgdl, idf, last_build, lock, requests>>

\* A pass that lets the exception of getmtime out: the build is given up
\* where it stands and the request ends with the error.
ReindexStatAborting(t) ==
    /\ th[t].pc = "reindex_stat"
    /\ LET fn == th[t].walk[th[t].i]
       IN  IF fs[fn].exists
           THEN /\ docs' = Append(docs, MakeDoc(th[t].i - 1, fn, th[t].text,
                                                fs[fn].mtime, th[t].len))
                /\ tf' = Append(tf, th[t].freq)
                /\ th' = [th EXCEPT ![t].pc = "reindex_read", ![t].i = @ + 1,
                                    ![t].text = <<>>, ![t].len = 0, ![t].freq = <<>>,
                                    ![t].read_ok = FALSE,
                                    ![t].log = Append(@, [name |-> fn,
                                                          read |-> th[t].read_ok,
                                                          stat |-> TRUE])]
                /\ UNCHANGED lock
           ELSE /\ UNCHANGED <<docs, tf>>
                /\ lock' = 0
                /\ th' = [th EXCEPT ![t].pc = "returned",
                                    ![t].result = [kind |-> "OSError", items |-> <<>>,
                                                   value |-> 0]]
    /\ UNCHANGED <<fs, clock, df, avgdl, idf, last_build, requests>>

\* A pass that appends the table before it asks for the modification time,
\* so that a raise of getmtime leaves the table without its document.
ReindexStatTableFirst(t) ==
    /\ th[t].pc = "reindex_stat"
    /\ LET fn == th[t].walk[th[t].i]
       IN  /\ tf' = Append(tf, th[t].freq)
           /\ IF fs[fn].exists
              THEN docs' = Append(docs, MakeDoc(th[t].i - 1, fn, th[t].text,
                                                fs[fn].mtime, th[t].len))
              ELSE UNCHANGED docs
    /\ th' = [th EXCEPT ![t].pc = "reindex_read", ![t].i = @ + 1, ![t].text = <<>>,
                        ![t].len = 0, ![t].freq = <<>>, ![t].read_ok = FALSE,
                        ![t].log = Append(@, [name |-> th[t].walk[th[t].i],
                                              read |-> th[t].read_ok,
                                              stat |-> fs[th[t].walk[th[t].i]].exists])]
    /\ UNCHANGED <<fs, clock, df, avgdl, idf, last_build, lock, requests>>

\* Lines 74-80: getmtime, the two appends; a raise skips to the next file.
ReindexStat(t) ==
    /\ th[t].pc = "reindex_stat"
    /\ LET fn == th[t].walk[th[t].i]
       IN  IF fs[fn].exists
           THEN /\ docs' = Append(docs, MakeDoc(th[t].i - 1, fn, th[t].text,
                                                fs[fn].mtime, th[t].len))
                /\ tf' = Append(tf, th[t].freq)
           ELSE UNCHANGED <<docs, tf>>
    /\ th' = [th EXCEPT ![t].pc = "reindex_read", ![t].i = @ + 1, ![t].text = <<>>,
                        ![t].len = 0, ![t].freq = <<>>, ![t].read_ok = FALSE,
                        ![t].log = Append(@, [name |-> th[t].walk[th[t].i],
                                              read |-> th[t].read_ok,
                                              stat |-> fs[th[t].walk[th[t].i]].exists])]
    /\ UNCHANGED <<fs, clock, df, avgdl, idf, last_build, lock, requests>>

\* Lines 82-87 and the release: avgdl, the idf table, the return.
ReindexFinish(t) ==
    /\ th[t].pc = "reindex_read"
    /\ th[t].i > Len(th[t].walk)
    /\ avgdl' = AvgDl(docs)
    /\ idf' = IdfTable(docs, df)
    /\ lock' = 0
    /\ th' = [th EXCEPT ![t].pc = IF th[t].caller = "search" THEN "search_tokenize"
                                                             ELSE "reindex_respond",
                        ![t].walk = <<>>, ![t].i = 0, ![t].began = 0, ![t].log = <<>>]
    /\ UNCHANGED <<fs, clock, docs, df, tf, last_build, requests>>

\* Line 298: the handler answers len(self.index.docs), read without the lock.
ReindexRespond(t) ==
    /\ th[t].pc = "reindex_respond"
    /\ th' = [th EXCEPT ![t].pc = "returned",
                        ![t].result = [kind |-> "docs", items |-> <<>>, value |-> Len(docs)]]
    /\ UNCHANGED <<fs, clock, index, lock, requests>>

(***************************************************************************)
(* search (lines 116-139) and score (lines 101-114).                       *)
(***************************************************************************)
\* A search without the early return of lines 119-120.
SearchTokenizeNoReturn(t) ==
    /\ th[t].pc = "search_tokenize"
    /\ th' = [th EXCEPT ![t].pc = "search_lock", ![t].q_terms = tokenize(th[t].query)]
    /\ UNCHANGED <<fs, clock, index, lock, requests>>

\* Lines 118-120.
SearchTokenize(t) ==
    /\ th[t].pc = "search_tokenize"
    /\ LET q == tokenize(th[t].query)
       IN  IF q = <<>>
           THEN th' = [th EXCEPT ![t].pc = "returned",
                          ![t].result = [kind |-> "results", items |-> <<>>, value |-> 0]]
           ELSE th' = [th EXCEPT ![t].pc = "search_lock", ![t].q_terms = q]
    /\ UNCHANGED <<fs, clock, index, lock, requests>>

\* Lines 121-122.
SearchAcquire(t) ==
    /\ th[t].pc = "search_lock"
    /\ CanAcquire(t)
    /\ lock' = t
    /\ th' = [th EXCEPT ![t].pc = "search_loop", ![t].i = 0, ![t].scores = <<>>,
                        ![t].scored_on = last_build]
    /\ UNCHANGED <<fs, clock, index, requests>>

\* Lines 123-126: the next document is handed to score, with the lock still
\* held; after the last one the lock is released.
SearchLoop(t) ==
    /\ th[t].pc = "search_loop"
    /\ IF th[t].i < Len(docs)
       THEN /\ th' = [th EXCEPT ![t].pc = "score_lock", ![t].caller = "search",
                               ![t].doc_idx = th[t].i]
            /\ UNCHANGED lock
       ELSE /\ th' = [th EXCEPT ![t].pc = "search_rank", ![t].i = 0]
            /\ lock' = 0
    /\ UNCHANGED <<fs, clock, index, requests>>

\* score, lines 102-114: acquire, compute, release, in one step (nothing else
\* can change the index meanwhile).  Lines 124-126 take the value in search.
Score(t) ==
    /\ th[t].pc = "score_lock"
    /\ CanAcquire(t)
    /\ LET r == score(th[t].q_terms, th[t].doc_idx)
       IN  IF th[t].caller = "search" /\ r.kind = "score"
           THEN th' = [th EXCEPT ![t].pc = "search_loop", ![t].i = @ + 1,
                          ![t].scores = IF r.value > 0
                                        THEN Append(@, <<r.value, th[t].doc_idx>>)
                                        ELSE @]
           ELSE th' = [th EXCEPT ![t].pc = "returned", ![t].result = r]
    /\ UNCHANGED <<fs, clock, index, lock, requests>>

\* Lines 127-139: sort, cut to limit, and build the result records.
SearchRank(t) ==
    /\ th[t].pc = "search_rank"
    /\ LET kept == SliceTo(SortDesc(th[t].scores), th[t].limit)
       IN  th' = [th EXCEPT ![t].pc = "returned", ![t].scores = <<>>,
                            ![t].result = Results(kept, th[t].q_terms),
                            ![t].ranked = kept,
                            ![t].ranked_on = IF kept = <<>> THEN th[t].scored_on
                                                            ELSE last_build]
    /\ UNCHANGED <<fs, clock, index, lock, requests>>

\* Lines 291-292 and 297-298: the handler writes the answer and the request
\* is over.
Respond(t) ==
    /\ th[t].pc = "returned"
    /\ th' = [th EXCEPT ![t] = [Idle EXCEPT !.pc = "done"]]
    /\ UNCHANGED <<fs, clock, index, lock, requests>>

(***************************************************************************)
(* The program.                                                            *)
(***************************************************************************)
\* The steps of a request under way on thread t.
Step(t) ==
    \/ MaybeAcquire(t) \/ MaybeStat(t) \/ MaybeCompare(t)
    \/ ReindexAcquire(t) \/ ReindexRead(t) \/ ReindexStat(t)
    \/ ReindexFinish(t) \/ ReindexRespond(t)
    \/ SearchTokenize(t) \/ SearchAcquire(t) \/ SearchLoop(t)
    \/ Score(t) \/ SearchRank(t) \/ Respond(t)

Environment ==
    \/ \E fn \in FileNames, text \in Texts : WriteFile(fn, text)
    \/ \E fn \in FileNames : RemoveFile(fn)
    \/ \E fn \in FileNames : ProtectFile(fn)

Next ==
    \/ \E t \in Threads : CallSearch(t) \/ CallReindex(t) \/ CallScore(t)
    \/ \E t \in Threads : Step(t)
    \/ Environment

Spec == Init /\ [][Next]_vars

\* Every worker thread is scheduled: a request that can take a step takes it.
FairSpec == Spec /\ \A t \in Threads : WF_vars(Step(t))

(***************************************************************************)
(* make_snippet on its own (lines 154-167): one call, on a text, a term    *)
(* list and a width drawn at the start.  The width is held in the field    *)
(* limit of the thread.                                                    *)
(***************************************************************************)
\* The term sequences of the queries.
QueryTerms == {tokenize(q) : q \in Queries}

\* Term sequences a caller may hand to score and to make_snippet: those of
\* the queries, and the one term every file of the initial folders holds.
ProbeTerms == QueryTerms \cup { << <<"a">> >> }

SnippetChars == {"a", "B", " ", "&"}
SnippetTexts == UNION {[1..n -> SnippetChars] : n \in 0..MaxSnippetText}
Widths == {1, 2, 4}

SnippetInit ==
    /\ fs = [fn \in FileNames |-> Absent]
    /\ clock = 0
    /\ docs = <<>>
    /\ df = <<>>
    /\ tf = <<>>
    /\ avgdl = [num |-> 0, den |-> 1]
    /\ idf = <<>>
    /\ last_build = 1
    /\ lock = 0
    /\ requests = 0
    /\ \E text \in SnippetTexts, terms \in ProbeTerms, width \in Widths :
          th = [t \in Threads |->
                    IF t = 1
                    THEN [Idle EXCEPT !.pc = "snippet_call", !.op = "snippet",
                                      !.text = text, !.q_terms = terms, !.limit = width]
                    ELSE Idle]

MakeSnippet(t) ==
    /\ th[t].pc = "snippet_call"
    /\ th' = [th EXCEPT ![t].pc = "returned",
                        ![t].result = [kind |-> "snippet", value |-> 0,
                                       items |-> make_snippet(th[t].text, th[t].q_terms,
                                                              th[t].limit)]]
    /\ UNCHANGED <<fs, clock, index, lock, requests>>

SnippetNext == \E t \in Threads : MakeSnippet(t)

SnippetSpec == SnippetInit /\ [][SnippetNext]_vars

(***************************************************************************)
(* Properties.                                                             *)
(***************************************************************************)
InSearch(t) == th[t].op = "search"

\* C1: every invocation of search and of reindex eventually returns to its
\* caller, and once it has returned it does not hold the index lock.
CallsReturn ==
    \A t \in Threads :
        (th[t].pc # "idle") ~> (th[t].pc \in {"returned", "done"} /\ lock # t)

\* C2: a search whose change check found the live (path, mtime) set different
\* from the snapshot's hands no document to score before a build pass has run
\* since that check.
RebuildBeforeScoring ==
    \A t \in Threads :
        (InSearch(t) /\ th[t].pc = "score_lock" /\ th[t].stale)
            => last_build > th[t].seen_build

\* A search that saw the index stale, rebuilt it, and now scores a document.
StaleSearchScoresAfterRebuild ==
    \E t \in Threads :
        /\ InSearch(t) /\ th[t].pc = "score_lock" /\ th[t].stale
        /\ th[t].passes = 1
        /\ docs # <<>>

\* C5: at most one thread is inside the build section of reindex.
OneBuildAtATime == Cardinality(InBuild) <= 1

\* One request builds while another waits for the lock to rebuild.
BuildWithRebuildWaiting ==
    \E t, u \in Threads :
        /\ t \in InBuild
        /\ th[u].pc = "reindex_lock"

\* C3: a search that has begun to score delivers results, all of them read
\* from the one snapshot it scored.
OneSnapshotPerSearch ==
    \A t \in Threads :
        (InSearch(t) /\ th[t].pc = "search_loop")
            ~> (/\ th[t].pc = "returned"
                /\ th[t].result.kind = "results"
                /\ th[t].ranked_on = th[t].scored_on)

NoToken(q) == \A j \in DOMAIN q : ~IsTokenChar(q[j])

\* C6: a search whose query holds no token takes no lock for scoring, scores
\* and ranks nothing, and returns the empty sequence without an error.
EmptyQueryGivesEmpty ==
    \A t \in Threads :
        (InSearch(t) /\ NoToken(th[t].query)) =>
            /\ th[t].pc \notin {"search_lock", "search_loop", "score_lock", "search_rank"}
            /\ th[t].pc = "returned" =>
                  th[t].result = [kind |-> "results", items |-> <<>>, value |-> 0]

\* A whitespace query has been answered over a folder that holds documents.
BlankQueryAnswered ==
    \E t \in Threads :
        /\ InSearch(t) /\ th[t].query = <<" ">>
        /\ th[t].pc = "returned"
        /\ th[t].result.kind = "results"
        /\ docs # <<>>

\* No term of q_terms is in the table of the document at position k.
LacksTerms(q_terms, k) == \A j \in DOMAIN q_terms : q_terms[j] \notin DOMAIN tf[k]

\* C7: a document whose table holds no term of the query scores exactly 0,
\* and no search keeps such a document among its scored or ranked entries.
ScoreZeroWithoutTerms ==
    /\ \A q_terms \in QueryTerms : \A k \in DOMAIN docs :
          (k \in DOMAIN tf /\ LacksTerms(q_terms, k)) =>
              score(q_terms, k - 1) = [kind |-> "score", items |-> <<>>, value |-> 0]
    /\ \A t \in Threads :
          /\ (th[t].op = "score" /\ th[t].pc = "score_lock" /\ lock = 0
                /\ th[t].doc_idx < Len(docs) /\ LacksTerms(th[t].q_terms, th[t].doc_idx + 1))
                => score(th[t].q_terms, th[t].doc_idx).value = 0
          /\ (InSearch(t) /\ lock = t) =>
                \A j \in DOMAIN th[t].scores :
                    ~LacksTerms(th[t].q_terms, th[t].scores[j][2] + 1)
          /\ (InSearch(t) /\ th[t].pc = "returned" /\ last_build = th[t].scored_on /\ lock = 0) =>
                \A j \in DOMAIN th[t].ranked :
                    ~LacksTerms(th[t].q_terms, th[t].ranked[j][2] + 1)

\* score has returned 0 for a document without the query's terms, while
\* another document of the same snapshot scores above 0 for them.
ZeroScoreReturned ==
    \E t \in Threads :
        /\ th[t].op = "score" /\ th[t].pc = "returned"
        /\ th[t].q_terms # <<>>
        /\ th[t].result = [kind |-> "score", items |-> <<>>, value |-> 0]
        /\ lock = 0
        /\ th[t].doc_idx < Len(docs)
        /\ LacksTerms(th[t].q_terms, th[t].doc_idx + 1)
        /\ \E k \in DOMAIN docs : score(th[t].q_terms, k - 1).value > 0

\* Descending by score, and by ascending position where scores are equal.
Ordered(r) ==
    \A j, k \in DOMAIN r :
        j < k => (r[j][1] > r[k][1] \/ (r[j][1] = r[k][1] /\ r[j][2] < r[k][2]))

\* C8: a search over a snapshot that holds documents answers with its matches
\* ordered by score descending, equal scores by ascending position.
RankedByScoreThenPosition ==
    \A t \in Threads :
        (InSearch(t) /\ th[t].pc = "search_loop" /\ docs # <<>>)
            ~> (/\ th[t].pc = "returned"
                /\ th[t].result.kind = "results"
                /\ Ordered(th[t].ranked))

\* C9: a search that returns results returns at most limit of them.
AtMostLimitResults ==
    \A t \in Threads :
        (InSearch(t) /\ th[t].pc = "returned" /\ th[t].result.kind = "results")
            => Len(th[t].result.items) <= th[t].limit

\* C10: in a completed snapshot df(t) is the number of documents whose table
\* holds t.
DfCountsDocuments ==
    lock = 0 =>
        \A term \in DOMAIN df :
            df[term] = Cardinality({k \in DOMAIN tf : term \in DOMAIN tf[k]})

\* C11: in a completed snapshot every stored idf value is non-negative, and
\* no document is given a negative score for any query.
ScoresNonNegative ==
    lock = 0 =>
        /\ \A term \in DOMAIN idf : idf[term] >= 0
        /\ \A q_terms \in ProbeTerms : \A k \in DOMAIN docs :
              score(q_terms, k - 1).value >= 0

\* The files of the pass of thread t whose read failed (line 18 raised for
\* every encoding).
Unread(t) == {th[t].log[j].name : j \in {k \in DOMAIN th[t].log : ~th[t].log[k].read}}

\* C12: a build pass appends no document for a file whose read failed, so
\* when its loop ends the snapshot holds no such file and counts only the
\* files that were read and stamped.
FailedReadsSkipped ==
    \A t \in Threads :
        (th[t].pc = "reindex_read" /\ th[t].i > Len(th[t].walk)) =>
            /\ \A k \in DOMAIN docs : Basename(docs[k].path) \notin Unread(t)
            /\ Len(docs) = Cardinality({j \in DOMAIN th[t].log :
                                            th[t].log[j].read /\ th[t].log[j].stat})

\* The files of the pass of thread t that were appended: those whose step
\* did not raise, in the order of the listing.
Loaded(t) ==
    LET kept == SelectSeq(th[t].log, LAMBDA e : e.stat)
    IN  [j \in DOMAIN kept |-> kept[j].name]

\* C13: a build pass goes through every listed file whatever happens to any
\* one of them: it keeps the lock, has handled each file listed before the
\* one at hand, holds a document for exactly the files whose step did not
\* raise, and a rebuild request returns with the document count.
NoFileAbortsBuild ==
    \A t \in Threads :
        /\ t \in InBuild =>
              /\ lock = t
              /\ Len(th[t].log) = th[t].i - 1
              /\ \A j \in DOMAIN th[t].log : th[t].log[j].name = th[t].walk[j]
              /\ [k \in DOMAIN docs |-> Basename(docs[k].path)] = Loaded(t)
              /\ Len(tf) = Len(docs)
        /\ (th[t].op = "reindex" /\ th[t].pc = "returned") => th[t].result.kind = "docs"

\* A pass has come to the end of its listing with one file skipped, because
\* its step raised, and another file loaded.
PassSurvivedFailure ==
    \E t \in Threads :
        /\ th[t].pc = "reindex_read" /\ th[t].i > Len(th[t].walk)
        /\ \E j \in DOMAIN th[t].log : ~th[t].log[j].stat
        /\ docs # <<>>

\* What a snapshot says, whatever the positions of its documents: the
\* documents with their tables, the document frequencies, N, avgdl and idf.
Stats(ds, tfs, d) ==
    [docs |-> {[path |-> ds[k].path, title |-> ds[k].title, text |-> ds[k].text,
                mtime |-> ds[k].mtime, len |-> ds[k].len, freq |-> tfs[k]] :
                   k \in DOMAIN ds},
     df |-> d, N |-> DocCount(ds), avgdl |-> AvgDl(ds), idf |-> IdfTable(ds, d)]

\* C14: a build pass during which the folder did not change leaves what a
\* further pass over the same folder leaves, in whatever order that pass
\* lists the files: the same documents and tables, df, N, avgdl and idf.
RebuildIsDeterministic ==
    \A t \in Threads :
        (th[t].pc = "reindex_read" /\ th[t].i > Len(th[t].walk) /\ clock = th[t].began) =>
            \A order \in Orderings(Live) :
                LET b == BuildFrom(fs, order, 1, [docs |-> <<>>, df |-> <<>>, tf |-> <<>>])
                IN  Stats(docs, tf, df) = Stats(b.docs, b.tf, b.df)

\* A pass over an unchanged folder of two files has listed them b.md first;
\* a further pass may list them the other way round.
RebuiltInAnotherOrder ==
    \E t \in Threads :
        /\ th[t].pc = "reindex_read" /\ th[t].i > Len(th[t].walk)
        /\ clock = th[t].began
        /\ th[t].walk = <<"b.md", "a.txt">>
        /\ Len(docs) = 2
        /\ \E order \in Orderings(Live) : order # th[t].walk

\* C15: score never divides by zero: over a completed snapshot it returns a
\* value for every document and every query, also when avgdl is 0, and no
\* call of score ends with a ZeroDivisionError.
ScoringNeverDividesByZero ==
    /\ lock = 0 =>
          \A q_terms \in ProbeTerms : \A k \in DOMAIN docs :
              score(q_terms, k - 1).kind = "score"
    /\ \A t \in Threads :
          /\ (th[t].pc = "score_lock" /\ lock = 0) =>
                score(th[t].q_terms, th[t].doc_idx).kind # "ZeroDivisionError"
          /\ th[t].pc = "returned" => th[t].result.kind # "ZeroDivisionError"

\* score has returned a value for a document of a snapshot whose documents
\* all have zero tokens (avgdl = 0).
ZeroTokenCorpusScored ==
    \E t \in Threads :
        /\ th[t].op = "score" /\ th[t].pc = "returned"
        /\ th[t].result.kind = "score"
        /\ lock = 0
        /\ th[t].doc_idx < Len(docs)
        /\ avgdl.num = 0

\* C16: the snippet make_snippet returns is at most width characters long,
\* plus at most two ellipsis markers.
SnippetWithinWidth ==
    \A t \in Threads :
        (th[t].op = "snippet" /\ th[t].pc = "returned") =>
            Len(th[t].result.items) <= th[t].limit + 2

\* C17: every document of a completed snapshot records the content its file
\* had at the recorded modification time.  (A write stamps the file with a
\* new time, so a readable file whose time is the recorded one still has the
\* content it had at that time.)
TextIsContentAtMtime ==
    lock = 0 =>
        \A k \in DOMAIN docs :
            LET fn == Basename(docs[k].path)
            IN  (CanRead(fs, fn) /\ fs[fn].mtime = docs[k].mtime) =>
                    docs[k].text = fs[fn].text

\* C18: outside a call of reindex no step of a search writes the index, and
\* when the live (path, mtime) set equalled the snapshot's at the start of
\* the scan of maybe_reindex and equals it at the comparison, maybe_reindex
\* goes on to the query without a call of reindex: documents, tables,
\* statistics and build stamp stay as they were.
FreshIndexUntouched ==
    [][\A t \in Threads :
          (InSearch(t) /\ th'[t] # th[t]
             /\ th[t].pc \notin {"reindex_lock", "reindex_read", "reindex_stat"}) =>
              /\ index' = index
              /\ (th[t].pc = "maybe_stat" /\ th'[t].pc # "maybe_stat"
                    /\ ~th[t].stale /\ LivePairs = Have) =>
                       (th'[t].pc = "search_tokenize" /\ requests' = requests)]_vars

\* A search has come through maybe_reindex over an up-to-date index that holds
\* documents, and no build pass has run.
FreshSearchSkippedRebuild ==
    \E t \in Threads :
        /\ InSearch(t) /\ th[t].pc = "search_tokenize"
        /\ ~th[t].stale /\ LivePairs = Have
        /\ th[t].passes = 0 /\ last_build = th[t].seen_build /\ requests = 0
        /\ docs # <<>>

\* C19: whenever the lock is free, docs and tf have the same length and the
\* table at each position is the table of the text of the document there.
TablesMatchDocuments ==
    lock = 0 =>
        /\ Len(tf) = Len(docs)
        /\ \A k \in DOMAIN docs : tf[k] = TermFreq(tokenize(docs[k].text))

\* A completed snapshot of a pass that skipped the file it listed first: the
\* document at the first position carries a later enumerate index and has
\* terms.
AlignedAfterSkip ==
    /\ lock = 0
    /\ docs # <<>>
    /\ docs[1].id # 0
    /\ Len(tf) = Len(docs)
    /\ DOMAIN tf[1] # {}

=============================================================================
